---- MODULE Spec2Model ----
(***************************************************************************)
(* The three views of the gym administration console as state machines:    *)
(*   Members view     src/src/pages/UsersPage.tsx            (u_ variables) *)
(*   Plans view       src/src/pages/MembershipPlansPage.tsx  (p_ variables) *)
(*   Attendance view  src/src/pages/AttendancePage.tsx       (a_ variables) *)
(* A view's state is its useState cells.  Every async function of a page   *)
(* is a task in the view's list of operations in flight (u_net, p_net,     *)
(* a_net, in the order the operations were started); a task holds the      *)
(* locals its continuation reads after the await.  One action runs the     *)
(* synchronous part of a handler up to its first await, one action runs    *)
(* the continuation when the remote call settles.  The remote API is       *)
(* opaque: a call settles with any body of the bounded sample sets, or     *)
(* fails.  The views share nothing, so each has its own specification.     *)
(***************************************************************************)
EXTENDS Integers, Sequences, FiniteSets, TLC

(* ------------------------------ bounds --------------------------------- *)

\* Remote operations one view may have in flight at once.
MaxInFlight == 2

\* Calendar days the wall clock runs through (new Date() is read on resets).
MaxDay == 2

\* Longest list a list endpoint returns.
MaxList == 2

\* Remote operations the Plans view may have in flight at once (its mount
\* effect alone starts three).
MaxPlansInFlight == 3

(* --------------------------- values in general ------------------------- *)

\* A nullable cell (string | null, User | null): <<>> is null, <<x>> is x.
Null == <<>>

Some(x) == <<x>>

Range(s) == {s[i] : i \in 1..Len(s)}

RemoveAt(s, i) == SubSeq(s, 1, i - 1) \o SubSeq(s, i + 1, Len(s))

ReplaceAt(s, i, x) == [s EXCEPT ![i] = x]

\* The sequences over S, of length at most n, that repeat no element.
DistinctSeqs(S, n) ==
  UNION {{s \in [1..k -> S] : \A i, j \in 1..k : s[i] = s[j] => i = j} : k \in 0..n}

\* A remote call as the API sees it.
Call(method, url) == [method |-> method, url |-> url]

\* format(new Date(), 'yyyy-MM-dd') on day d of the modelled month.
FormatDate(d) == [yyyy |-> "2025", MM |-> "01", dd |-> d]

(* ------------------------- text <-> number ----------------------------- *)

Digits == <<"0", "1", "2", "3", "4", "5", "6", "7", "8", "9">>

IsDigit(c) == \E i \in 1..10 : Digits[i] = c

DigitVal(c) == (CHOOSE i \in 1..10 : Digits[i] = c) - 1

\* The longest prefix of s made of digits.
RECURSIVE LeadingDigits(_)
LeadingDigits(s) ==
  IF s = <<>> \/ ~IsDigit(Head(s)) THEN <<>>
  ELSE <<Head(s)>> \o LeadingDigits(Tail(s))

RECURSIVE DigitsValue(_, _)
DigitsValue(s, acc) ==
  IF s = <<>> THEN acc ELSE DigitsValue(Tail(s), acc * 10 + DigitVal(Head(s)))

\* parseInt(text) for unsigned input: the leading digits' value, NaN (which
\* JSON carries as null) when there is none.
ParseInt(s) ==
  IF LeadingDigits(s) = <<>> THEN Null ELSE Some(DigitsValue(LeadingDigits(s), 0))

\* n.toString() for n >= 0.
RECURSIVE NumToString(_)
NumToString(n) ==
  IF n < 10 THEN <<Digits[n + 1]>>
  ELSE NumToString(n \div 10) \o <<Digits[(n % 10) + 1]>>

(* ------------------------- the remote's samples ------------------------ *)

\* Member ids are opaque strings, kept as their characters: one longer than
\* the 8 characters the tables show, one shorter.
AnnId == <<"a", "n", "n", "-", "0", "0", "0", "0", "1">>

BobId == <<"b", "o", "b">>

\* Member records as GET /users returns them (interface User).
Ann ==
  [userId |-> AnnId, name |-> "Ann", age |-> 30, gender |-> "Female",
   contactNumber |-> "555", membershipStatus |-> "Active",
   joiningDate |-> FormatDate(0)]

Bob ==
  [userId |-> BobId, name |-> "Bob", age |-> 30, gender |-> "Female",
   contactNumber |-> "555", membershipStatus |-> "Active",
   joiningDate |-> FormatDate(0)]

Members == {Ann, Bob}

\* The bodies GET /users may return.
UserLists == DistinctSeqs(Members, MaxList)

(* ------------------------------ state ---------------------------------- *)

VARIABLES
  today,          \* the wall clock's calendar day
  ev,             \* history: the handler that ran last and the calls it issued
  u_mounted,      \* Members view: the mount effect has run
  u_users,
  u_loading,
  u_error,
  u_showForm,
  u_editingUser,
  u_formData,
  u_net,          \* Members view: operations in flight, oldest first
  a_mounted,      \* Attendance view: the mount effect has run
  a_userIdInput,
  a_checkInMessage,
  a_checkInError,
  a_loadingCheckIn,
  a_attendanceRecords,
  a_usersMap,
  a_loadingLogs,
  a_errorLogs,
  a_net,          \* Attendance view: operations in flight, oldest first
  p_mounted,      \* Plans view: the mount effect has run
  p_plans,
  p_users,
  p_planAssignments,
  p_loading,
  p_error,
  p_showPlanForm,
  p_editingPlan,
  p_planFormData,
  p_showAssignForm,
  p_assignFormData,
  p_net           \* Plans view: operations in flight, oldest first

u_vars ==
  <<u_mounted, u_users, u_loading, u_error, u_showForm, u_editingUser,
    u_formData, u_net>>

a_vars ==
  <<a_mounted, a_userIdInput, a_checkInMessage, a_checkInError, a_loadingCheckIn,
    a_attendanceRecords, a_usersMap, a_loadingLogs, a_errorLogs, a_net>>

p_vars ==
  <<p_mounted, p_plans, p_users, p_planAssignments, p_loading, p_error,
    p_showPlanForm, p_editingPlan, p_planFormData, p_showAssignForm,
    p_assignFormData, p_net>>

vars == <<today, ev, u_vars, a_vars, p_vars>>

\* The cells a view's handlers never reach: those of the other views.
notMembers == <<a_vars, p_vars>>

notAttendance == <<u_vars, p_vars>>

notPlans == <<u_vars, a_vars>>

\* A handler that settled no task, and one that settled `task`.
Event(op, calls) == [op |-> op, calls |-> calls, task |-> Null]

TaskEvent(op, calls, task) == [op |-> op, calls |-> calls, task |-> Some(task)]

(* ------------------- remote calls and operations in flight -------------- *)

GetUsers == Call("GET", <<"users">>)

\* PUT /users/{id} when a member is being edited, POST /users otherwise.
UserSaveCall(editing) ==
  IF editing # Null THEN Call("PUT", <<"users", editing[1].userId>>)
  ELSE Call("POST", <<"users">>)

DeleteUser(userId) == Call("DELETE", <<"users", userId>>)

GetPlans == Call("GET", <<"plans">>)

\* PUT /plans/{id} when a plan is being edited, POST /plans otherwise.
PlanSaveCall(editing) ==
  IF editing # Null THEN Call("PUT", <<"plans", editing[1].planId>>)
  ELSE Call("POST", <<"plans">>)

DeletePlan(planId) == Call("DELETE", <<"plans", planId>>)

GetAssignments(userId) == Call("GET", <<"plans", "user", userId, "assignments">>)

PostAssign == Call("POST", <<"plans", "assign">>)

GetAttendance == Call("GET", <<"attendance", "all">>)

PostCheckIn == Call("POST", <<"attendance", "checkin">>)

\* Members view: fetchUsers at its await.  `superseded` is history: a
\* fetchUsers started after this one has stored its response already.
FetchUsersTask == [op |-> "fetchUsers", superseded |-> FALSE]

\* `net` once its fetchUsers at i has stored its response: the fetchUsers
\* started before it and still awaiting are from now on superseded.
Supersede(net, i) ==
  [k \in 1..Len(net) |->
     IF k < i /\ net[k].op = "fetchUsers" THEN [net[k] EXCEPT !.superseded = TRUE]
     ELSE net[k]]

\* Members view: handleFormSubmit at its await.
UserSaveTask(editing, body) ==
  [op |-> "handleFormSubmit", call |-> UserSaveCall(editing), body |-> body]

\* Members view: handleDeleteClick at its await.
UserDeleteTask(userId) == [op |-> "handleDeleteClick", call |-> DeleteUser(userId)]

\* Plans view: fetchPlans at its await.
FetchPlansTask == [op |-> "fetchPlans"]

\* Plans view: fetchUsersForAssignment at its await.
FetchUsersForAssignmentTask == [op |-> "fetchUsersForAssignment"]

\* Plans view: fetchAllPlanAssignments at its first await, GET /users.
AggregationTask == [op |-> "fetchAllPlanAssignments", await |-> "users"]

\* Plans view: fetchAllPlanAssignments inside its loop, awaiting the
\* assignments of Head(rest).  `assignments` is the local array; users and
\* bodies are history: the member list the aggregation got, and each body
\* it got since with the member it was asked for.
LoopTask(rest, assignments, users, bodies) ==
  [op |-> "fetchAllPlanAssignments", await |-> "assignments", rest |-> rest,
   assignments |-> assignments, users |-> users, bodies |-> bodies]

AwaitsAggUsers(t) == t.op = "fetchAllPlanAssignments" /\ t.await = "users"

AwaitsAssignments(t) == t.op = "fetchAllPlanAssignments" /\ t.await = "assignments"

\* Plans view: handlePlanFormSubmit at its await.
PlanSaveTask(editing, body) ==
  [op |-> "handlePlanFormSubmit", call |-> PlanSaveCall(editing), body |-> body]

\* Plans view: handleDeletePlanClick at its await.
PlanDeleteTask(planId) == [op |-> "handleDeletePlanClick", call |-> DeletePlan(planId)]

\* Plans view: handleAssignFormSubmit at its await.
AssignTask(body) == [op |-> "handleAssignFormSubmit", call |-> PostAssign, body |-> body]

\* Attendance view: loadInitialData awaiting fetchUsersMap.
LoadUsersMapTask == [op |-> "loadInitialData", await |-> "fetchUsersMap"]

\* Attendance view: loadInitialData awaiting fetchAttendanceLogs; usersMapOk
\* is history: how its fetchUsersMap settled.
LoadLogsTask(usersMapOk) ==
  [op |-> "loadInitialData", await |-> "fetchAttendanceLogs", usersMapOk |-> usersMapOk]

\* Attendance view: the fetchAttendanceLogs() a check-in starts.
FetchLogsTask == [op |-> "fetchAttendanceLogs"]

AwaitsUsersMap(t) == t.op = "loadInitialData" /\ t.await = "fetchUsersMap"

AwaitsLogs(t) ==
  \/ t.op = "fetchAttendanceLogs"
  \/ t.op = "loadInitialData" /\ t.await = "fetchAttendanceLogs"

\* Attendance view: handleCheckIn at its await; usersMap is the map of the
\* render the handler was created in, which its continuation reads.
CheckInTask(userId, usersMap) ==
  [op |-> "handleCheckIn", call |-> PostCheckIn, body |-> [userId |-> userId],
   usersMap |-> usersMap]

\* The remote call an operation in flight is waiting for.
CallOf(t) ==
  CASE t.op = "fetchUsers" -> GetUsers
    [] t.op = "fetchPlans" -> GetPlans
    [] t.op = "fetchUsersForAssignment" -> GetUsers
    [] t.op = "fetchAllPlanAssignments" ->
         IF t.await = "users" THEN GetUsers ELSE GetAssignments(Head(t.rest).userId)
    [] t.op = "loadInitialData" ->
         IF t.await = "fetchUsersMap" THEN GetUsers ELSE GetAttendance
    [] t.op = "fetchAttendanceLogs" -> GetAttendance
    [] OTHER -> t.call

Calls(tasks) == [k \in 1..Len(tasks) |-> CallOf(tasks[k])]

\* The operations of `net` that run handler `op`.
InFlight(net, op) == {i \in 1..Len(net) : net[i].op = op}

(* ============================ Members view ============================== *)

\* The error strings of UsersPage.
UsersLoadError == "Failed to load users. Please ensure the backend is running and you are logged in."

UserSaveError == "Failed to save user. Please check your input."

UserDeleteError == "Failed to delete user."

\* The form's reset value (useState initial value and every reset).
DefaultUserForm(day) ==
  [name |-> "", age |-> <<>>, gender |-> "", contactNumber |-> "",
   membershipStatus |-> "Inactive", joiningDate |-> FormatDate(day)]

\* What the modelled user types or selects, field by field.
UserInputs ==
  {<<"name", "Ann">>, <<"age", <<"3", "0">>>>, <<"gender", "Female">>,
   <<"contactNumber", "555">>}

\* The form's `required` inputs hold a value (the browser fires onSubmit
\* only then).
UserFormValid(f) ==
  /\ f.name # ""
  /\ f.age # <<>>
  /\ f.gender # ""
  /\ f.contactNumber # ""

\* const userPayload = {...formData, age: parseInt(formData.age), ...}
UserPayload(f) == [f EXCEPT !.age = ParseInt(f.age)]

UInit ==
  /\ u_mounted = FALSE
  /\ u_users = <<>>
  /\ u_loading = TRUE
  /\ u_error = Null
  /\ u_showForm = FALSE
  /\ u_editingUser = Null
  /\ u_formData = DefaultUserForm(today)
  /\ u_net = <<>>

\* useEffect(() => { fetchUsers(); }, []): once, or twice under the
\* development build's React.StrictMode (src/main.tsx), which runs mount
\* effects a second time.  fetchUsers up to its await: setLoading(true),
\* GET /users.
UMount ==
  /\ ~u_mounted
  /\ \E n \in 1..2 :
       LET started == [k \in 1..n |-> FetchUsersTask]
       IN  /\ Len(started) <= MaxInFlight
           /\ u_net' = started
           /\ ev' = Event("UMount", Calls(started))
  /\ u_mounted' = TRUE
  /\ u_loading' = TRUE
  /\ UNCHANGED <<notMembers, today, u_users, u_error, u_showForm, u_editingUser,
                 u_formData>>

\* fetchUsers after the await, the call having succeeded with `data`.
UFetchUsersOk ==
  \E i \in InFlight(u_net, "fetchUsers"), data \in UserLists :
    /\ u_users' = data
    /\ u_error' = Null
    /\ u_loading' = FALSE
    /\ u_net' = RemoveAt(Supersede(u_net, i), i)
    /\ ev' = TaskEvent("UFetchUsersOk", <<>>,
                       [response |-> data, superseded |-> u_net[i].superseded])
    /\ UNCHANGED <<notMembers, today, u_mounted, u_showForm, u_editingUser, u_formData>>

\* fetchUsers after the await, the call having failed.
UFetchUsersFail ==
  \E i \in InFlight(u_net, "fetchUsers") :
    /\ u_error' = Some(UsersLoadError)
    /\ u_loading' = FALSE
    /\ u_net' = RemoveAt(u_net, i)
    /\ ev' = Event("UFetchUsersFail", <<>>)
    /\ UNCHANGED <<notMembers, today, u_mounted, u_users, u_showForm, u_editingUser,
                   u_formData>>

\* The "Add New Member" / "Hide Form" button.
UToggleForm ==
  /\ u_mounted
  /\ u_showForm' = ~u_showForm
  /\ u_editingUser' = Null
  /\ u_formData' = DefaultUserForm(today)
  /\ ev' = Event("UToggleForm", <<>>)
  /\ UNCHANGED <<notMembers, today, u_mounted, u_users, u_loading, u_error, u_net>>

\* handleInputChange: one field of the shown form takes the typed value.
UHandleInputChange ==
  /\ u_showForm
  /\ \E in \in UserInputs :
       /\ u_formData[in[1]] # in[2]
       /\ u_formData' = [u_formData EXCEPT ![in[1]] = in[2]]
  /\ ev' = Event("UHandleInputChange", <<>>)
  /\ UNCHANGED <<notMembers, today, u_mounted, u_users, u_loading, u_error, u_showForm,
                 u_editingUser, u_net>>

\* handleEditClick on a row of the table.
UHandleEditClick ==
  /\ \E user \in Range(u_users) :
       /\ u_editingUser' = Some(user)
       /\ u_formData' =
            [name |-> user.name, age |-> NumToString(user.age),
             gender |-> user.gender, contactNumber |-> user.contactNumber,
             membershipStatus |-> user.membershipStatus,
             joiningDate |-> user.joiningDate]
  /\ u_showForm' = TRUE
  /\ ev' = Event("UHandleEditClick", <<>>)
  /\ UNCHANGED <<notMembers, today, u_mounted, u_users, u_loading, u_error, u_net>>

\* The "Cancel Edit" button, rendered while editingUser is set.
UCancelEdit ==
  /\ u_showForm
  /\ u_editingUser # Null
  /\ u_editingUser' = Null
  /\ u_showForm' = FALSE
  /\ u_formData' = DefaultUserForm(today)
  /\ ev' = Event("UCancelEdit", <<>>)
  /\ UNCHANGED <<notMembers, today, u_mounted, u_users, u_loading, u_error, u_net>>

\* handleFormSubmit up to its await.  The submit button is disabled while
\* loading, and the browser submits only a form whose required fields hold.
UHandleFormSubmit ==
  /\ u_showForm
  /\ ~u_loading
  /\ UserFormValid(u_formData)
  /\ LET started == <<UserSaveTask(u_editingUser, UserPayload(u_formData))>>
     IN  /\ Len(u_net) + Len(started) <= MaxInFlight
         /\ u_net' = u_net \o started
         /\ ev' = Event("UHandleFormSubmit", Calls(started))
  /\ u_error' = Null
  /\ u_loading' = TRUE
  /\ UNCHANGED <<notMembers, today, u_mounted, u_users, u_showForm, u_editingUser,
                 u_formData>>

\* A save that refreshes nothing, to compare with.
SaveWithoutRefresh == <<>>

\* The refreshes a successful save starts: fetchUsers().
UserSaveRefreshes == <<FetchUsersTask>>

\* handleFormSubmit after the await, the save having succeeded: the form is
\* put away, fetchUsers() raises loading, the finally block lowers it.
UFormSubmitOk ==
  \E i \in InFlight(u_net, "handleFormSubmit") :
    /\ Len(u_net) - 1 + Len(UserSaveRefreshes) <= MaxInFlight
    /\ u_showForm' = FALSE
    /\ u_editingUser' = Null
    /\ u_formData' = DefaultUserForm(today)
    /\ u_net' = RemoveAt(u_net, i) \o UserSaveRefreshes
    /\ u_loading' = FALSE
    /\ ev' = TaskEvent("UFormSubmitOk", Calls(UserSaveRefreshes), u_net[i])
    /\ UNCHANGED <<notMembers, today, u_mounted, u_users, u_error>>

\* A failure path that puts the form away as the success path does, to
\* compare with.
UFormSubmitFailResetting ==
  \E i \in InFlight(u_net, "handleFormSubmit") :
    /\ u_error' = Some(UserSaveError)
    /\ u_showForm' = FALSE
    /\ u_editingUser' = Null
    /\ u_formData' = DefaultUserForm(today)
    /\ u_loading' = FALSE
    /\ u_net' = RemoveAt(u_net, i)
    /\ ev' = TaskEvent("UFormSubmitFail", <<>>, u_net[i])
    /\ UNCHANGED <<notMembers, today, u_mounted, u_users>>

\* A failure path without the finally block, to compare with.
UFormSubmitFailWithoutFinally ==
  \E i \in InFlight(u_net, "handleFormSubmit") :
    /\ u_error' = Some(UserSaveError)
    /\ u_net' = RemoveAt(u_net, i)
    /\ ev' = TaskEvent("UFormSubmitFail", <<>>, u_net[i])
    /\ UNCHANGED <<notMembers, today, u_mounted, u_users, u_loading, u_showForm,
                   u_editingUser, u_formData>>

\* handleFormSubmit after the await, the save having failed.
UFormSubmitFail ==
  \E i \in InFlight(u_net, "handleFormSubmit") :
    /\ u_error' = Some(UserSaveError)
    /\ u_loading' = FALSE
    /\ u_net' = RemoveAt(u_net, i)
    /\ ev' = TaskEvent("UFormSubmitFail", <<>>, u_net[i])
    /\ UNCHANGED <<notMembers, today, u_mounted, u_users, u_showForm, u_editingUser,
                   u_formData>>

\* handleDeleteClick with window.confirm answered "Cancel".
UDeleteDeclined ==
  /\ \E user \in Range(u_users) : TRUE
  /\ ev' = Event("UDeleteDeclined", <<>>)
  /\ UNCHANGED <<notMembers, today, u_vars>>

\* handleDeleteClick with window.confirm answered "OK", up to its await.
UHandleDeleteClick ==
  /\ \E user \in Range(u_users) :
       LET started == <<UserDeleteTask(user.userId)>>
       IN  /\ Len(u_net) + Len(started) <= MaxInFlight
           /\ u_net' = u_net \o started
           /\ ev' = Event("UHandleDeleteClick", Calls(started))
  /\ u_loading' = TRUE
  /\ UNCHANGED <<notMembers, today, u_mounted, u_users, u_error, u_showForm,
                 u_editingUser, u_formData>>

\* A delete that refreshes nothing, to compare with.
DeleteWithoutRefresh == <<>>

\* The refreshes a successful delete starts: fetchUsers().
UserDeleteRefreshes == <<FetchUsersTask>>

\* A success path that also takes the deleted member out of the displayed
\* list, to compare with.
UDeleteOkPatching ==
  \E i \in InFlight(u_net, "handleDeleteClick") :
    /\ Len(u_net) - 1 + Len(UserDeleteRefreshes) <= MaxInFlight
    /\ u_users' = SelectSeq(u_users, LAMBDA user : user.userId # u_net[i].call.url[2])
    /\ u_net' = RemoveAt(u_net, i) \o UserDeleteRefreshes
    /\ u_loading' = FALSE
    /\ ev' = Event("UDeleteOk", Calls(UserDeleteRefreshes))
    /\ UNCHANGED <<notMembers, today, u_mounted, u_error, u_showForm, u_editingUser,
                   u_formData>>

\* handleDeleteClick after the await, the delete having succeeded:
\* fetchUsers() raises loading, the finally block lowers it.
UDeleteOk ==
  \E i \in InFlight(u_net, "handleDeleteClick") :
    /\ Len(u_net) - 1 + Len(UserDeleteRefreshes) <= MaxInFlight
    /\ u_net' = RemoveAt(u_net, i) \o UserDeleteRefreshes
    /\ u_loading' = FALSE
    /\ ev' = Event("UDeleteOk", Calls(UserDeleteRefreshes))
    /\ UNCHANGED <<notMembers, today, u_mounted, u_users, u_error, u_showForm,
                   u_editingUser, u_formData>>

\* handleDeleteClick after the await, the delete having failed.
UDeleteFail ==
  \E i \in InFlight(u_net, "handleDeleteClick") :
    /\ u_error' = Some(UserDeleteError)
    /\ u_loading' = FALSE
    /\ u_net' = RemoveAt(u_net, i)
    /\ ev' = Event("UDeleteFail", <<>>)
    /\ UNCHANGED <<notMembers, today, u_mounted, u_users, u_showForm, u_editingUser,
                   u_formData>>

\* Midnight passes: new Date() now formats to the next day.
Tick ==
  /\ today < MaxDay
  /\ today' = today + 1
  /\ ev' = Event("Tick", <<>>)
  /\ UNCHANGED <<u_vars, a_vars, p_vars>>

UNext ==
  \/ UMount
  \/ UFetchUsersOk
  \/ UFetchUsersFail
  \/ UToggleForm
  \/ UHandleInputChange
  \/ UHandleEditClick
  \/ UCancelEdit
  \/ UHandleFormSubmit
  \/ UFormSubmitOk
  \/ UFormSubmitFail
  \/ UDeleteDeclined
  \/ UHandleDeleteClick
  \/ UDeleteOk
  \/ UDeleteFail
  \/ Tick

(* =========================== Attendance view ============================ *)

\* The error strings of AttendancePage.
UserNamesError == <<"Failed to load user names for attendance records.">>

LogsNetworkError == <<"Failed to load attendance logs. Network error or backend down.">>

\* `Failed to load attendance logs: ${status} - ${statusText}`
LogsStatusError(response) ==
  <<"Failed to load attendance logs: ", response.status, " - ", response.statusText>>

CheckInFallbackError == "Failed to check in. Please ensure User ID is valid."

\* A check-in time as the remote sends it (an ISO date-time), by its parts.
CheckInTimes == {[date |-> FormatDate(1), HH |-> "09", mm |-> "30", ss |-> "00"]}

\* format(new Date(checkInTime), 'HH:mm:ss')
FormatTime(t) == <<t.HH, ":", t.mm, ":", t.ss>>

\* Attendance records as GET /attendance/all returns them.
AttendanceSamples ==
  {[attendanceId |-> 1, userId |-> AnnId, userName |-> "Ann",
    checkInTime |-> CHOOSE t \in CheckInTimes : TRUE],
   [attendanceId |-> 2, userId |-> BobId, userName |-> "",
    checkInTime |-> CHOOSE t \in CheckInTimes : TRUE]}

AttendanceLists == DistinctSeqs(AttendanceSamples, MaxList)

\* What the modelled user leaves in the id field.
CheckInInputs == {<<>>, <<" ">>, <<" ">> \o AnnId \o <<" ">>, BobId}

\* The bodies POST /attendance/checkin may answer with.
CheckInResponses == {[userId |-> id, checkInTime |-> t] : id \in {AnnId, BobId}, t \in CheckInTimes}

\* The ways a remote call fails, as axios reports them: no response at all, or
\* a response with a status and a body that may carry a message.
Failures ==
  {[response |-> Null],
   [response |-> Some([status |-> "500", statusText |-> "Internal Server Error",
                       data |-> Null])],
   [response |-> Some([status |-> "404", statusText |-> "Not Found",
                       data |-> Some([message |-> "User not found"])])],
   [response |-> Some([status |-> "400", statusText |-> "Bad Request",
                       data |-> Some([message |-> ""])])]}

\* String.prototype.trim on a string kept as its characters.
RECURSIVE TrimStart(_)
TrimStart(s) == IF s # <<>> /\ Head(s) = " " THEN TrimStart(Tail(s)) ELSE s

RECURSIVE TrimEnd(_)
TrimEnd(s) ==
  IF s # <<>> /\ s[Len(s)] = " " THEN TrimEnd(SubSeq(s, 1, Len(s) - 1)) ELSE s

Trim(s) == TrimEnd(TrimStart(s))

\* s.substring(0, n)
Substring0(s, n) == SubSeq(s, 1, IF Len(s) < n THEN Len(s) ELSE n)

\* new Map built by response.data.forEach(user => map.set(user.userId, user.name))
RECURSIVE BuildUsersMap(_, _)
BuildUsersMap(data, map) ==
  IF data = <<>> THEN map
  ELSE BuildUsersMap(Tail(data),
         [id \in DOMAIN map \cup {Head(data).userId} |->
            IF id = Head(data).userId THEN Head(data).name ELSE map[id]])

EmptyMap == [id \in {} |-> ""]

\* usersMap.get(id) || id.substring(0, 8) + '...'
CheckInUserName(map, id) ==
  IF id \in DOMAIN map /\ map[id] # "" THEN <<map[id]>>
  ELSE Substring0(id, 8) \o <<"...">>

\* A catch block that always shows the fixed text, to compare with.
CheckInFixedText(err) == CheckInFallbackError

\* err.response && err.response.data && err.response.data.message, else the
\* fixed text.
CheckInErrorText(err) ==
  IF /\ err.response # Null
     /\ err.response[1].data # Null
     /\ err.response[1].data[1].message # ""
  THEN err.response[1].data[1].message
  ELSE CheckInFallbackError

\* fetchAttendanceLogs' catch block.
LogsErrorText(err) ==
  IF err.response # Null THEN LogsStatusError(err.response[1]) ELSE LogsNetworkError

AInit ==
  /\ a_mounted = FALSE
  /\ a_userIdInput = <<>>
  /\ a_checkInMessage = Null
  /\ a_checkInError = Null
  /\ a_loadingCheckIn = FALSE
  /\ a_attendanceRecords = <<>>
  /\ a_usersMap = EmptyMap
  /\ a_loadingLogs = TRUE
  /\ a_errorLogs = Null
  /\ a_net = <<>>

\* The mount effect: loadInitialData(), up to the await inside fetchUsersMap;
\* twice under the development build's React.StrictMode.
AMount ==
  /\ ~a_mounted
  /\ \E n \in 1..2 :
       LET started == [k \in 1..n |-> LoadUsersMapTask]
       IN  /\ Len(started) <= MaxInFlight
           /\ a_net' = started
           /\ ev' = Event("AMount", Calls(started))
  /\ a_mounted' = TRUE
  /\ UNCHANGED <<notAttendance, today, a_userIdInput, a_checkInMessage, a_checkInError,
                 a_loadingCheckIn, a_attendanceRecords, a_usersMap, a_loadingLogs,
                 a_errorLogs>>

\* fetchUsersMap settles with `data`; loadInitialData goes on to
\* fetchAttendanceLogs, up to its await.
AFetchUsersMapOk ==
  \E i \in 1..Len(a_net), data \in UserLists :
    /\ AwaitsUsersMap(a_net[i])
    /\ a_usersMap' = BuildUsersMap(data, EmptyMap)
    /\ a_errorLogs' = Null
    /\ a_loadingLogs' = TRUE
    /\ a_net' = ReplaceAt(a_net, i, LoadLogsTask(TRUE))
    /\ ev' = Event("AFetchUsersMapOk", Calls(<<LoadLogsTask(TRUE)>>))
    /\ UNCHANGED <<notAttendance, today, a_mounted, a_userIdInput, a_checkInMessage,
                   a_checkInError, a_loadingCheckIn, a_attendanceRecords>>

\* A fetchUsersMap that rethrows, ending loadInitialData there, to compare
\* with.
AFetchUsersMapFailRethrowing ==
  \E i \in 1..Len(a_net) :
    /\ AwaitsUsersMap(a_net[i])
    /\ a_errorLogs' = Some(UserNamesError)
    /\ a_net' = RemoveAt(a_net, i)
    /\ ev' = Event("AFetchUsersMapFail", <<>>)
    /\ UNCHANGED <<notAttendance, today, a_mounted, a_userIdInput, a_checkInMessage,
                   a_checkInError, a_loadingCheckIn, a_attendanceRecords, a_usersMap,
                   a_loadingLogs>>

\* fetchUsersMap fails and catches; loadInitialData goes on all the same.
AFetchUsersMapFail ==
  \E i \in 1..Len(a_net) :
    /\ AwaitsUsersMap(a_net[i])
    /\ a_errorLogs' = Some(UserNamesError)
    /\ a_loadingLogs' = TRUE
    /\ a_net' = ReplaceAt(a_net, i, LoadLogsTask(FALSE))
    /\ ev' = Event("AFetchUsersMapFail", Calls(<<LoadLogsTask(FALSE)>>))
    /\ UNCHANGED <<notAttendance, today, a_mounted, a_userIdInput, a_checkInMessage,
                   a_checkInError, a_loadingCheckIn, a_attendanceRecords, a_usersMap>>

\* fetchAttendanceLogs after the await, the call having succeeded.
AFetchLogsOk ==
  \E i \in 1..Len(a_net), data \in AttendanceLists :
    /\ AwaitsLogs(a_net[i])
    /\ a_attendanceRecords' = data
    /\ a_errorLogs' = Null
    /\ a_loadingLogs' = FALSE
    /\ a_net' = RemoveAt(a_net, i)
    /\ ev' = TaskEvent("AFetchLogsOk", <<>>, a_net[i])
    /\ UNCHANGED <<notAttendance, today, a_mounted, a_userIdInput, a_checkInMessage,
                   a_checkInError, a_loadingCheckIn, a_usersMap>>

\* fetchAttendanceLogs after the await, the call having failed.
AFetchLogsFail ==
  \E i \in 1..Len(a_net), err \in Failures :
    /\ AwaitsLogs(a_net[i])
    /\ a_errorLogs' = Some(LogsErrorText(err))
    /\ a_loadingLogs' = FALSE
    /\ a_net' = RemoveAt(a_net, i)
    /\ ev' = TaskEvent("AFetchLogsFail", <<>>, a_net[i])
    /\ UNCHANGED <<notAttendance, today, a_mounted, a_userIdInput, a_checkInMessage,
                   a_checkInError, a_loadingCheckIn, a_attendanceRecords, a_usersMap>>

\* onChange of the id field.
ASetUserIdInput ==
  /\ a_mounted
  /\ \E text \in CheckInInputs :
       /\ text # a_userIdInput
       /\ a_userIdInput' = text
  /\ ev' = Event("ASetUserIdInput", <<>>)
  /\ UNCHANGED <<notAttendance, today, a_mounted, a_checkInMessage, a_checkInError,
                 a_loadingCheckIn, a_attendanceRecords, a_usersMap, a_loadingLogs,
                 a_errorLogs, a_net>>

\* The submit button is enabled and the required id field holds text.
CanSubmitCheckIn == ~a_loadingCheckIn /\ a_userIdInput # <<>>

\* handleManualCheckInSubmit on text that trims to nothing: no check-in.
ASubmitBlank ==
  /\ a_mounted
  /\ CanSubmitCheckIn
  /\ Trim(a_userIdInput) = <<>>
  /\ ev' = Event("ASubmitBlank", <<>>)
  /\ UNCHANGED <<notAttendance, today, a_vars>>

\* handleManualCheckInSubmit -> handleCheckIn(trimmed id), up to its await.
AHandleCheckIn ==
  /\ a_mounted
  /\ CanSubmitCheckIn
  /\ Trim(a_userIdInput) # <<>>
  /\ LET started == <<CheckInTask(Trim(a_userIdInput), a_usersMap)>>
     IN  /\ Len(a_net) + Len(started) <= MaxInFlight
         /\ a_net' = a_net \o started
         /\ ev' = Event("AHandleCheckIn", Calls(started))
  /\ a_checkInMessage' = Null
  /\ a_checkInError' = Null
  /\ a_loadingCheckIn' = TRUE
  /\ UNCHANGED <<notAttendance, today, a_mounted, a_userIdInput, a_attendanceRecords,
                 a_usersMap, a_loadingLogs, a_errorLogs>>

\* The refresh a successful check-in starts: fetchAttendanceLogs().
CheckInRefreshes == <<FetchLogsTask>>

\* handleCheckIn after the await, the check-in having succeeded with `data`:
\* the message, the cleared field, fetchAttendanceLogs() up to its await
\* (setLoadingLogs(true)), the finally block.
ACheckInOk ==
  \E i \in InFlight(a_net, "handleCheckIn"), data \in CheckInResponses :
    /\ Len(a_net) - 1 + Len(CheckInRefreshes) <= MaxInFlight
    /\ a_checkInMessage' =
         Some([userName |-> CheckInUserName(a_net[i].usersMap, data.userId),
               at |-> FormatTime(data.checkInTime)])
    /\ a_userIdInput' = <<>>
    /\ a_loadingLogs' = TRUE
    /\ a_net' = RemoveAt(a_net, i) \o CheckInRefreshes
    /\ a_loadingCheckIn' = FALSE
    /\ ev' = TaskEvent("ACheckInOk", Calls(CheckInRefreshes),
                       [body |-> a_net[i].body, usersMap |-> a_net[i].usersMap,
                        response |-> data])
    /\ UNCHANGED <<notAttendance, today, a_mounted, a_checkInError, a_attendanceRecords,
                   a_usersMap, a_errorLogs>>

\* A failure path without the finally block, to compare with.
ACheckInFailWithoutFinally ==
  \E i \in InFlight(a_net, "handleCheckIn"), err \in Failures :
    /\ a_checkInError' = Some(CheckInErrorText(err))
    /\ a_net' = RemoveAt(a_net, i)
    /\ ev' = Event("ACheckInFail", <<>>)
    /\ UNCHANGED <<notAttendance, today, a_mounted, a_userIdInput, a_checkInMessage,
                   a_loadingCheckIn, a_attendanceRecords, a_usersMap, a_loadingLogs,
                   a_errorLogs>>

\* handleCheckIn after the await, the check-in having failed.
ACheckInFail ==
  \E i \in InFlight(a_net, "handleCheckIn"), err \in Failures :
    /\ a_checkInError' = Some(CheckInErrorText(err))
    /\ a_loadingCheckIn' = FALSE
    /\ a_net' = RemoveAt(a_net, i)
    /\ ev' = TaskEvent("ACheckInFail", <<>>, [body |-> a_net[i].body, err |-> err])
    /\ UNCHANGED <<notAttendance, today, a_mounted, a_userIdInput, a_checkInMessage,
                   a_attendanceRecords, a_usersMap, a_loadingLogs, a_errorLogs>>

ANext ==
  \/ AMount
  \/ AFetchUsersMapOk
  \/ AFetchUsersMapFail
  \/ AFetchLogsOk
  \/ AFetchLogsFail
  \/ ASetUserIdInput
  \/ ASubmitBlank
  \/ AHandleCheckIn
  \/ ACheckInOk
  \/ ACheckInFail

(* ============================== Plans view ============================== *)

\* The error strings of MembershipPlansPage.
PlansLoadError == "Failed to load plans. Please ensure the backend is running and you are logged in."

AssignmentsLoadError == "Failed to load plan assignments."

PlanSaveError == "Failed to save plan. Please check your input."

PlanDeleteError == "Failed to delete plan."

AssignError == "Failed to assign plan. Ensure user and plan exist."

\* Plans as GET /plans returns them (interface MembershipPlan).
Basic ==
  [planId |-> 1, planName |-> "Basic", price |-> 20, durationMonths |-> 1,
   featuresList |-> "gym"]

Gold ==
  [planId |-> 2, planName |-> "Gold", price |-> 20, durationMonths |-> 1,
   featuresList |-> "gym"]

\* Assignments as GET /plans/user/{id}/assignments returns them
\* (interface PlanAssignmentDisplay): one of Ann's, two of Bob's.
Assignment(id, userName) ==
  [assignmentId |-> id, userName |-> userName, planName |-> "Basic",
   startDate |-> FormatDate(0), endDate |-> FormatDate(1)]

AssignmentsOf(userId) ==
  IF userId = AnnId THEN {Assignment(1, "Ann")}
  ELSE {Assignment(2, "Bob"), Assignment(3, "Bob")}

\* What the remote may answer in the Plans view: the bodies of GET /plans, of
\* the GET /users that fills the member dropdown, of the GET /users an
\* aggregation starts with, and of GET /plans/user/{id}/assignments.
\* A remote whose tables have rows enough to show every order of members and
\* of assignments:
TablesRemote ==
  [plans |-> DistinctSeqs({Basic}, MaxList),
   dropdownUsers |-> DistinctSeqs({Ann}, MaxList),
   users |-> DistinctSeqs(Members, MaxList),
   assignments |-> [id \in {AnnId, BobId} |-> DistinctSeqs(AssignmentsOf(id), MaxList)]]

\* and one with a row or none in each, for the work with the forms:
FormsRemote ==
  [plans |-> DistinctSeqs({Basic}, MaxList),
   dropdownUsers |-> DistinctSeqs({Ann}, MaxList),
   users |-> DistinctSeqs({Ann}, MaxList),
   assignments |-> [id \in {AnnId, BobId} |-> DistinctSeqs(AssignmentsOf(AnnId), MaxList)]]

\* parseFloat(text) for unsigned input: the leading digits and, after a
\* point, the digits that follow; NaN (null in JSON) when no digit leads.
ParseFloat(s) ==
  LET whole == LeadingDigits(s)
      rest == SubSeq(s, Len(whole) + 1, Len(s))
  IN  IF whole = <<>> THEN Null
      ELSE Some([whole |-> DigitsValue(whole, 0),
                 fraction |-> IF rest # <<>> /\ Head(rest) = "."
                              THEN LeadingDigits(Tail(rest)) ELSE <<>>])

\* The plan form's reset value.
DefaultPlanForm ==
  [planName |-> "", price |-> <<>>, durationMonths |-> <<>>, featuresList |-> ""]

\* The assignment form's reset value.
DefaultAssignForm(day) == [userId |-> <<>>, planId |-> <<>>, startDate |-> FormatDate(day)]

\* What the modelled user types into the plan form.
PlanInputs ==
  {<<"planName", "Basic">>, <<"price", <<"2", "0">>>>, <<"durationMonths", <<"1">>>>}

\* The plan form's `required` inputs hold a value.
PlanFormValid(f) == f.planName # "" /\ f.price # <<>> /\ f.durationMonths # <<>>

\* const planPayload = {...planFormData, price: parseFloat(...),
\*                      durationMonths: parseInt(...)}
PlanPayload(f) ==
  [f EXCEPT !.price = ParseFloat(f.price), !.durationMonths = ParseInt(f.durationMonths)]

\* The options the assignment form's two selects offer (besides the empty one).
MemberOptions == {p_users[i].userId : i \in 1..Len(p_users)}

PlanOptions == {NumToString(p_plans[i].planId) : i \in 1..Len(p_plans)}

\* The assignment form's `required` selects show a chosen option.  A select
\* whose value matches no option shows the empty first option.
AssignFormValid(f) == f.userId \in MemberOptions /\ f.planId \in PlanOptions

AssignPayload(f) ==
  [userId |-> f.userId, planId |-> ParseInt(f.planId), startDate |-> f.startDate]

\* assignments.unshift(...data), to compare with.
UnshiftAll(assignments, data) == data \o assignments

\* assignments.push(...userAssignmentsRes.data)
PushAll(assignments, data) == assignments \o data

PInit ==
  /\ p_mounted = FALSE
  /\ p_plans = <<>>
  /\ p_users = <<>>
  /\ p_planAssignments = <<>>
  /\ p_loading = TRUE
  /\ p_error = Null
  /\ p_showPlanForm = FALSE
  /\ p_editingPlan = Null
  /\ p_planFormData = DefaultPlanForm
  /\ p_showAssignForm = FALSE
  /\ p_assignFormData = DefaultAssignForm(today)
  /\ p_net = <<>>

\* What the mount effect starts: fetchPlans(), fetchUsersForAssignment(),
\* fetchAllPlanAssignments().
MountTasks == <<FetchPlansTask, FetchUsersForAssignmentTask, AggregationTask>>

\* The mount effect; twice under the development build's React.StrictMode.
PMount ==
  /\ ~p_mounted
  /\ \E n \in 1..2 :
       LET started == IF n = 1 THEN MountTasks ELSE MountTasks \o MountTasks
       IN  /\ Len(started) <= MaxPlansInFlight
           /\ p_net' = started
           /\ ev' = Event("PMount", Calls(started))
  /\ p_mounted' = TRUE
  /\ p_loading' = TRUE
  /\ UNCHANGED <<notPlans, today, p_plans, p_users, p_planAssignments, p_error,
                 p_showPlanForm, p_editingPlan, p_planFormData, p_showAssignForm,
                 p_assignFormData>>

\* fetchPlans after the await, the call having succeeded.
PFetchPlansOk(remote) ==
  \E i \in InFlight(p_net, "fetchPlans"), data \in remote.plans :
    /\ p_plans' = data
    /\ p_error' = Null
    /\ p_loading' = FALSE
    /\ p_net' = RemoveAt(p_net, i)
    /\ ev' = TaskEvent("PFetchPlansOk", <<>>, [response |-> data])
    /\ UNCHANGED <<notPlans, today, p_mounted, p_users, p_planAssignments,
                   p_showPlanForm, p_editingPlan, p_planFormData, p_showAssignForm,
                   p_assignFormData>>

\* fetchPlans after the await, the call having failed.
PFetchPlansFail ==
  \E i \in InFlight(p_net, "fetchPlans") :
    /\ p_error' = Some(PlansLoadError)
    /\ p_loading' = FALSE
    /\ p_net' = RemoveAt(p_net, i)
    /\ ev' = Event("PFetchPlansFail", <<>>)
    /\ UNCHANGED <<notPlans, today, p_mounted, p_plans, p_users, p_planAssignments,
                   p_showPlanForm, p_editingPlan, p_planFormData, p_showAssignForm,
                   p_assignFormData>>

\* fetchUsersForAssignment after the await: the dropdown keeps userId and name.
PFetchUsersForAssignmentOk(remote) ==
  \E i \in InFlight(p_net, "fetchUsersForAssignment"), data \in remote.dropdownUsers :
    /\ p_users' = [k \in 1..Len(data) |-> [userId |-> data[k].userId, name |-> data[k].name]]
    /\ p_net' = RemoveAt(p_net, i)
    /\ ev' = Event("PFetchUsersForAssignmentOk", <<>>)
    /\ UNCHANGED <<notPlans, today, p_mounted, p_plans, p_planAssignments, p_loading,
                   p_error, p_showPlanForm, p_editingPlan, p_planFormData,
                   p_showAssignForm, p_assignFormData>>

\* fetchUsersForAssignment after the await, the call having failed: the
\* catch block only logs.
PFetchUsersForAssignmentFail ==
  \E i \in InFlight(p_net, "fetchUsersForAssignment") :
    /\ p_net' = RemoveAt(p_net, i)
    /\ ev' = Event("PFetchUsersForAssignmentFail", <<>>)
    /\ UNCHANGED <<notPlans, today, p_mounted, p_plans, p_users, p_planAssignments,
                   p_loading, p_error, p_showPlanForm, p_editingPlan, p_planFormData,
                   p_showAssignForm, p_assignFormData>>

\* fetchAllPlanAssignments goes round its loop with the task at i now `t`:
\* the next member's call when one is left, else setPlanAssignments and the
\* finally block.
AggregationStep(op, i, t) ==
  IF t.rest # <<>>
  THEN /\ p_net' = ReplaceAt(p_net, i, t)
       /\ ev' = Event(op, Calls(<<t>>))
       /\ UNCHANGED <<p_planAssignments, p_loading>>
  ELSE /\ p_planAssignments' = t.assignments
       /\ p_loading' = FALSE
       /\ p_net' = RemoveAt(p_net, i)
       /\ ev' = TaskEvent("PAggregationDone", <<>>, t)

\* fetchAllPlanAssignments after its first await: the member list arrived.
PAggUsersOk(remote) ==
  \E i \in 1..Len(p_net), data \in remote.users :
    /\ AwaitsAggUsers(p_net[i])
    /\ AggregationStep("PAggUsersOk", i, LoopTask(data, <<>>, data, <<>>))
    /\ UNCHANGED <<notPlans, today, p_mounted, p_plans, p_users, p_error,
                   p_showPlanForm, p_editingPlan, p_planFormData, p_showAssignForm,
                   p_assignFormData>>

\* fetchAllPlanAssignments in its loop: the assignments of Head(rest) arrived.
PAggAssignmentsOk(remote) ==
  \E i \in 1..Len(p_net) :
    /\ AwaitsAssignments(p_net[i])
    /\ \E data \in remote.assignments[Head(p_net[i].rest).userId] :
         AggregationStep("PAggAssignmentsOk", i,
           LoopTask(Tail(p_net[i].rest), PushAll(p_net[i].assignments, data),
                    p_net[i].users,
                    Append(p_net[i].bodies,
                           [userId |-> Head(p_net[i].rest).userId, data |-> data])))
    /\ UNCHANGED <<notPlans, today, p_mounted, p_plans, p_users, p_error,
                   p_showPlanForm, p_editingPlan, p_planFormData, p_showAssignForm,
                   p_assignFormData>>

\* A catch block that also empties the displayed list, to compare with.
PAggFailClearing ==
  \E i \in InFlight(p_net, "fetchAllPlanAssignments") :
    /\ p_planAssignments' = <<>>
    /\ p_error' = Some(AssignmentsLoadError)
    /\ p_loading' = FALSE
    /\ p_net' = RemoveAt(p_net, i)
    /\ ev' = TaskEvent("PAggFail", <<>>, p_net[i])
    /\ UNCHANGED <<notPlans, today, p_mounted, p_plans, p_users, p_showPlanForm,
                   p_editingPlan, p_planFormData, p_showAssignForm, p_assignFormData>>

\* fetchAllPlanAssignments' catch and finally blocks: the member list or
\* one member's assignments failed to load.
PAggFail ==
  \E i \in InFlight(p_net, "fetchAllPlanAssignments") :
    /\ p_error' = Some(AssignmentsLoadError)
    /\ p_loading' = FALSE
    /\ p_net' = RemoveAt(p_net, i)
    /\ ev' = TaskEvent("PAggFail", <<>>, p_net[i])
    /\ UNCHANGED <<notPlans, today, p_mounted, p_plans, p_users, p_planAssignments,
                   p_showPlanForm, p_editingPlan, p_planFormData, p_showAssignForm,
                   p_assignFormData>>

\* The "Add/Edit Plans" / "Hide Plan Form" button.
PTogglePlanForm ==
  /\ p_mounted
  /\ p_showPlanForm' = ~p_showPlanForm
  /\ p_editingPlan' = Null
  /\ p_planFormData' = DefaultPlanForm
  /\ p_showAssignForm' = FALSE
  /\ ev' = Event("PTogglePlanForm", <<>>)
  /\ UNCHANGED <<notPlans, today, p_mounted, p_plans, p_users, p_planAssignments,
                 p_loading, p_error, p_assignFormData, p_net>>

\* The "Assign Plan to Member" / "Hide Assign Form" button.
PToggleAssignForm ==
  /\ p_mounted
  /\ p_showAssignForm' = ~p_showAssignForm
  /\ p_assignFormData' = DefaultAssignForm(today)
  /\ p_showPlanForm' = FALSE
  /\ ev' = Event("PToggleAssignForm", <<>>)
  /\ UNCHANGED <<notPlans, today, p_mounted, p_plans, p_users, p_planAssignments,
                 p_loading, p_error, p_editingPlan, p_planFormData, p_net>>

\* handlePlanInputChange: one field of the shown plan form takes the value.
PHandlePlanInputChange ==
  /\ p_showPlanForm
  /\ \E in \in PlanInputs :
       /\ p_planFormData[in[1]] # in[2]
       /\ p_planFormData' = [p_planFormData EXCEPT ![in[1]] = in[2]]
  /\ ev' = Event("PHandlePlanInputChange", <<>>)
  /\ UNCHANGED <<notPlans, today, p_mounted, p_plans, p_users, p_planAssignments,
                 p_loading, p_error, p_showPlanForm, p_editingPlan, p_showAssignForm,
                 p_assignFormData, p_net>>

\* handleEditPlanClick on a row of the plans table.
PHandleEditPlanClick ==
  /\ \E plan \in Range(p_plans) :
       /\ p_editingPlan' = Some(plan)
       /\ p_planFormData' =
            [planName |-> plan.planName, price |-> NumToString(plan.price),
             durationMonths |-> NumToString(plan.durationMonths),
             featuresList |-> plan.featuresList]
  /\ p_showPlanForm' = TRUE
  /\ ev' = Event("PHandleEditPlanClick", <<>>)
  /\ UNCHANGED <<notPlans, today, p_mounted, p_plans, p_users, p_planAssignments,
                 p_loading, p_error, p_showAssignForm, p_assignFormData, p_net>>

\* The plan form's "Cancel Edit" button, rendered while editingPlan is set.
PCancelEditPlan ==
  /\ p_showPlanForm
  /\ p_editingPlan # Null
  /\ p_editingPlan' = Null
  /\ p_showPlanForm' = FALSE
  /\ p_planFormData' = DefaultPlanForm
  /\ ev' = Event("PCancelEditPlan", <<>>)
  /\ UNCHANGED <<notPlans, today, p_mounted, p_plans, p_users, p_planAssignments,
                 p_loading, p_error, p_showAssignForm, p_assignFormData, p_net>>

\* handlePlanFormSubmit up to its await.  The submit button is disabled
\* while loading.
PHandlePlanFormSubmit ==
  /\ p_showPlanForm
  /\ ~p_loading
  /\ PlanFormValid(p_planFormData)
  /\ LET started == <<PlanSaveTask(p_editingPlan, PlanPayload(p_planFormData))>>
     IN  /\ Len(p_net) + Len(started) <= MaxPlansInFlight
         /\ p_net' = p_net \o started
         /\ ev' = Event("PHandlePlanFormSubmit", Calls(started))
  /\ p_error' = Null
  /\ p_loading' = TRUE
  /\ UNCHANGED <<notPlans, today, p_mounted, p_plans, p_users, p_planAssignments,
                 p_showPlanForm, p_editingPlan, p_planFormData, p_showAssignForm,
                 p_assignFormData>>

\* The refreshes a successful plan save starts: fetchPlans(),
\* fetchAllPlanAssignments().
PlanSaveRefreshes == <<FetchPlansTask, AggregationTask>>

\* handlePlanFormSubmit after the await, the save having succeeded: the form
\* is put away, the refreshes raise loading, the finally block lowers it.
PPlanFormSubmitOk ==
  \E i \in InFlight(p_net, "handlePlanFormSubmit") :
    /\ Len(p_net) - 1 + Len(PlanSaveRefreshes) <= MaxPlansInFlight
    /\ p_showPlanForm' = FALSE
    /\ p_editingPlan' = Null
    /\ p_planFormData' = DefaultPlanForm
    /\ p_net' = RemoveAt(p_net, i) \o PlanSaveRefreshes
    /\ p_loading' = FALSE
    /\ ev' = Event("PPlanFormSubmitOk", Calls(PlanSaveRefreshes))
    /\ UNCHANGED <<notPlans, today, p_mounted, p_plans, p_users, p_planAssignments,
                   p_error, p_showAssignForm, p_assignFormData>>

\* handlePlanFormSubmit after the await, the save having failed.
PPlanFormSubmitFail ==
  \E i \in InFlight(p_net, "handlePlanFormSubmit") :
    /\ p_error' = Some(PlanSaveError)
    /\ p_loading' = FALSE
    /\ p_net' = RemoveAt(p_net, i)
    /\ ev' = Event("PPlanFormSubmitFail", <<>>)
    /\ UNCHANGED <<notPlans, today, p_mounted, p_plans, p_users, p_planAssignments,
                   p_showPlanForm, p_editingPlan, p_planFormData, p_showAssignForm,
                   p_assignFormData>>

\* handleDeletePlanClick with window.confirm answered "Cancel".
PDeleteDeclined ==
  /\ \E plan \in Range(p_plans) : TRUE
  /\ ev' = Event("PDeleteDeclined", <<>>)
  /\ UNCHANGED <<notPlans, today, p_vars>>

\* handleDeletePlanClick with window.confirm answered "OK", up to its await.
PHandleDeletePlanClick ==
  /\ \E plan \in Range(p_plans) :
       LET started == <<PlanDeleteTask(plan.planId)>>
       IN  /\ Len(p_net) + Len(started) <= MaxPlansInFlight
           /\ p_net' = p_net \o started
           /\ ev' = Event("PHandleDeletePlanClick", Calls(started))
  /\ p_loading' = TRUE
  /\ UNCHANGED <<notPlans, today, p_mounted, p_plans, p_users, p_planAssignments,
                 p_error, p_showPlanForm, p_editingPlan, p_planFormData,
                 p_showAssignForm, p_assignFormData>>

\* A delete that refreshes the plans only, to compare with.
RefreshPlansOnly == <<FetchPlansTask>>

\* The refreshes a successful delete starts: fetchPlans(),
\* fetchAllPlanAssignments().
PlanDeleteRefreshes == <<FetchPlansTask, AggregationTask>>

\* handleDeletePlanClick after the await, the delete having succeeded: the
\* refreshes raise loading, the finally block lowers it.
PDeletePlanOk ==
  \E i \in InFlight(p_net, "handleDeletePlanClick") :
    /\ Len(p_net) - 1 + Len(PlanDeleteRefreshes) <= MaxPlansInFlight
    /\ p_net' = RemoveAt(p_net, i) \o PlanDeleteRefreshes
    /\ p_loading' = FALSE
    /\ ev' = Event("PDeletePlanOk", Calls(PlanDeleteRefreshes))
    /\ UNCHANGED <<notPlans, today, p_mounted, p_plans, p_users, p_planAssignments,
                   p_error, p_showPlanForm, p_editingPlan, p_planFormData,
                   p_showAssignForm, p_assignFormData>>

\* handleDeletePlanClick after the await, the delete having failed.
PDeletePlanFail ==
  \E i \in InFlight(p_net, "handleDeletePlanClick") :
    /\ p_error' = Some(PlanDeleteError)
    /\ p_loading' = FALSE
    /\ p_net' = RemoveAt(p_net, i)
    /\ ev' = Event("PDeletePlanFail", <<>>)
    /\ UNCHANGED <<notPlans, today, p_mounted, p_plans, p_users, p_planAssignments,
                   p_showPlanForm, p_editingPlan, p_planFormData, p_showAssignForm,
                   p_assignFormData>>

\* What the modelled user picks in the assignment form: an option of either
\* select.
AssignInputs ==
  {<<"userId", id>> : id \in MemberOptions} \cup {<<"planId", id>> : id \in PlanOptions}

\* handleAssignInputChange: one field of the shown assignment form takes the
\* value.
PHandleAssignInputChange ==
  /\ p_showAssignForm
  /\ \E in \in AssignInputs :
       /\ p_assignFormData[in[1]] # in[2]
       /\ p_assignFormData' = [p_assignFormData EXCEPT ![in[1]] = in[2]]
  /\ ev' = Event("PHandleAssignInputChange", <<>>)
  /\ UNCHANGED <<notPlans, today, p_mounted, p_plans, p_users, p_planAssignments,
                 p_loading, p_error, p_showPlanForm, p_editingPlan, p_planFormData,
                 p_showAssignForm, p_net>>

\* handleAssignFormSubmit up to its await.  The submit button is disabled
\* while loading.
PHandleAssignFormSubmit ==
  /\ p_showAssignForm
  /\ ~p_loading
  /\ AssignFormValid(p_assignFormData)
  /\ LET started == <<AssignTask(AssignPayload(p_assignFormData))>>
     IN  /\ Len(p_net) + Len(started) <= MaxPlansInFlight
         /\ p_net' = p_net \o started
         /\ ev' = Event("PHandleAssignFormSubmit", Calls(started))
  /\ p_error' = Null
  /\ p_loading' = TRUE
  /\ UNCHANGED <<notPlans, today, p_mounted, p_plans, p_users, p_planAssignments,
                 p_showPlanForm, p_editingPlan, p_planFormData, p_showAssignForm,
                 p_assignFormData>>

\* An assignment that refreshes the assignments only, to compare with.
RefreshAssignmentsOnly == <<AggregationTask>>

\* The refreshes a successful assignment starts: fetchAllPlanAssignments(),
\* fetchUsersForAssignment().
AssignRefreshes == <<AggregationTask, FetchUsersForAssignmentTask>>

\* handleAssignFormSubmit after the await, the assignment having succeeded:
\* the form is put away and reset, the refreshes start, the finally block
\* lowers loading.
PAssignFormSubmitOk ==
  \E i \in InFlight(p_net, "handleAssignFormSubmit") :
    /\ Len(p_net) - 1 + Len(AssignRefreshes) <= MaxPlansInFlight
    /\ p_showAssignForm' = FALSE
    /\ p_assignFormData' = DefaultAssignForm(today)
    /\ p_net' = RemoveAt(p_net, i) \o AssignRefreshes
    /\ p_loading' = FALSE
    /\ ev' = TaskEvent("PAssignFormSubmitOk", Calls(AssignRefreshes), p_net[i])
    /\ UNCHANGED <<notPlans, today, p_mounted, p_plans, p_users, p_planAssignments,
                   p_error, p_showPlanForm, p_editingPlan, p_planFormData>>

\* handleAssignFormSubmit after the await, the assignment having failed.
PAssignFormSubmitFail ==
  \E i \in InFlight(p_net, "handleAssignFormSubmit") :
    /\ p_error' = Some(AssignError)
    /\ p_loading' = FALSE
    /\ p_net' = RemoveAt(p_net, i)
    /\ ev' = TaskEvent("PAssignFormSubmitFail", <<>>, p_net[i])
    /\ UNCHANGED <<notPlans, today, p_mounted, p_plans, p_users, p_planAssignments,
                   p_showPlanForm, p_editingPlan, p_planFormData, p_showAssignForm,
                   p_assignFormData>>

(* ============================ specifications ============================ *)

Init ==
  /\ today = 1
  /\ ev = Event("Init", <<>>)
  /\ UInit
  /\ AInit
  /\ PInit

\* Each view runs on its own; the other views' cells stay as constructed.
SpecMembers == Init /\ [][UNext]_vars

SpecAttendance == Init /\ [][ANext]_vars

\* The Plans view worked through its tables alone (no form is opened), on
\* the remote with the fuller tables.
PTablesNext ==
  \/ PMount
  \/ PFetchPlansOk(TablesRemote)
  \/ PFetchPlansFail
  \/ PFetchUsersForAssignmentOk(TablesRemote)
  \/ PFetchUsersForAssignmentFail
  \/ PAggUsersOk(TablesRemote)
  \/ PAggAssignmentsOk(TablesRemote)
  \/ PAggFail
  \/ PDeleteDeclined
  \/ PHandleDeletePlanClick
  \/ PDeletePlanOk
  \/ PDeletePlanFail

SpecPlansTables == Init /\ [][PTablesNext]_vars

\* The Plans view with its plan form, on the remote with the short tables.
PPlanFormNext ==
  \/ PMount
  \/ PFetchPlansOk(FormsRemote)
  \/ PFetchPlansFail
  \/ PFetchUsersForAssignmentOk(FormsRemote)
  \/ PFetchUsersForAssignmentFail
  \/ PAggUsersOk(FormsRemote)
  \/ PAggAssignmentsOk(FormsRemote)
  \/ PAggFail
  \/ PTogglePlanForm
  \/ PToggleAssignForm
  \/ PHandlePlanInputChange
  \/ PHandleEditPlanClick
  \/ PCancelEditPlan
  \/ PHandlePlanFormSubmit
  \/ PPlanFormSubmitOk
  \/ PPlanFormSubmitFail

SpecPlanForm == Init /\ [][PPlanFormNext]_vars

\* The Plans view with its assignment form, on the same remote, the date
\* moving on.
PAssignFormNext ==
  \/ PMount
  \/ PFetchPlansOk(FormsRemote)
  \/ PFetchPlansFail
  \/ PFetchUsersForAssignmentOk(FormsRemote)
  \/ PFetchUsersForAssignmentFail
  \/ PAggUsersOk(FormsRemote)
  \/ PAggAssignmentsOk(FormsRemote)
  \/ PAggFail
  \/ PTogglePlanForm
  \/ PToggleAssignForm
  \/ PHandleEditPlanClick
  \/ PHandleAssignInputChange
  \/ PHandleAssignFormSubmit
  \/ PAssignFormSubmitOk
  \/ PAssignFormSubmitFail
  \/ Tick

SpecAssignForm == Init /\ [][PAssignFormNext]_vars


(* ------------------------------ fairness ------------------------------- *)

\* The mount effect runs and every remote call is answered in the end, one
\* way or the other; nothing is asked of the user.
LiveMembers ==
  /\ SpecMembers
  /\ WF_vars(UMount)
  /\ WF_vars(UFetchUsersOk \/ UFetchUsersFail)
  /\ WF_vars(UFormSubmitOk \/ UFormSubmitFail)
  /\ WF_vars(UDeleteOk \/ UDeleteFail)

LiveAttendance ==
  /\ SpecAttendance
  /\ WF_vars(AMount)
  /\ WF_vars(AFetchUsersMapOk \/ AFetchUsersMapFail)
  /\ WF_vars(AFetchLogsOk \/ AFetchLogsFail)
  /\ WF_vars(ACheckInOk \/ ACheckInFail)

\* The fetches the Plans view's mount effect and refreshes start are
\* answered in the end.
PlansFetchesAnswered(remote) ==
  /\ WF_vars(PMount)
  /\ WF_vars(PFetchPlansOk(remote) \/ PFetchPlansFail)
  /\ WF_vars(PFetchUsersForAssignmentOk(remote) \/ PFetchUsersForAssignmentFail)
  /\ WF_vars(PAggUsersOk(remote) \/ PAggAssignmentsOk(remote) \/ PAggFail)

LivePlanForm ==
  /\ SpecPlanForm
  /\ PlansFetchesAnswered(FormsRemote)
  /\ WF_vars(PPlanFormSubmitOk \/ PPlanFormSubmitFail)

LiveAssignForm ==
  /\ SpecAssignForm
  /\ PlansFetchesAnswered(FormsRemote)
  /\ WF_vars(PAssignFormSubmitOk \/ PAssignFormSubmitFail)

LivePlansTables ==
  /\ SpecPlansTables
  /\ PlansFetchesAnswered(TablesRemote)
  /\ WF_vars(PDeletePlanOk \/ PDeletePlanFail)

(* ============================== properties ============================== *)

\* The bodies a finished aggregation received, joined in the order received.
RECURSIVE Flatten(_)
Flatten(bodies) ==
  IF bodies = <<>> THEN <<>> ELSE Head(bodies).data \o Flatten(Tail(bodies))

\* The tasks of `net` that are a loadInitialData awaiting `step`.
Startups(net, step) == {i \in 1..Len(net) : net[i].op = "loadInitialData" /\ net[i].await = step}

\* C1: when an aggregation completes, every call having succeeded, the
\* assignment list it stores is the concatenation of the bodies of its
\* per-member calls, the members taken in the order of its GET /users body
\* and each body in the order it came: nothing dropped, doubled or moved.
AggregationConcatenates ==
  ev.op = "PAggregationDone" =>
    LET t == ev.task[1]
    IN  /\ [k \in 1..Len(t.bodies) |-> t.bodies[k].userId]
             = [k \in 1..Len(t.users) |-> t.users[k].userId]
        /\ p_planAssignments = Flatten(t.bodies)

\* An aggregation over Bob then Ann ends, Bob's two assignments and Ann's one
\* stored.
AggregationConcatenatesSeen ==
  /\ ev.op = "PAggregationDone"
  /\ ev.task[1].users = <<Bob, Ann>>
  /\ Len(ev.task[1].bodies[1].data) = 2
  /\ Len(p_planAssignments) = 3

\* C2: an aggregation whose member-list call or any per-member call fails
\* writes nothing to the displayed assignment list (no partial result, no
\* clearing) and sets the assignments-load error; the displayed list changes
\* only when an aggregation completes.
AggregationAllOrNothing ==
  [][/\ ev'.op = "PAggFail" =>
          /\ p_planAssignments' = p_planAssignments
          /\ p_error' = Some(AssignmentsLoadError)
     /\ p_planAssignments' # p_planAssignments => ev'.op = "PAggregationDone"]_vars

\* An aggregation fails at a per-member call, assignments already gathered,
\* a list from an earlier aggregation on display.
AggregationAllOrNothingSeen ==
  /\ ev.op = "PAggFail"
  /\ AwaitsAssignments(ev.task[1])
  /\ ev.task[1].assignments # <<>>
  /\ p_planAssignments # <<>>
  /\ p_planAssignments # ev.task[1].assignments

\* C3: at startup of the Attendance view, the member-name fetch having failed
\* and the attendance fetch after it succeeded, the records are displayed
\* and the load-error banner is shown (errorLogs is not null).
StartupKeepsNamesBanner ==
  (/\ ev.op = "AFetchLogsOk"
   /\ ev.task[1].op = "loadInitialData"
   /\ ~ev.task[1].usersMapOk)
  => /\ ~(a_loadingLogs /\ a_attendanceRecords = <<>>)
     /\ a_errorLogs # Null

\* C4: in the startup sequence GET /attendance/all is issued only when the
\* GET /users before it has settled, and then in either case: mounting
\* issues no attendance fetch, each settling of fetchUsersMap issues exactly
\* that one call and moves its sequence on to awaiting it, and no other step
\* moves a startup sequence on.
StartupFetchesInOrder ==
  [][/\ ev'.op = "AMount" =>
          /\ \A k \in 1..Len(ev'.calls) : ev'.calls[k] = GetUsers
          /\ Startups(a_net', "fetchAttendanceLogs") = {}
     /\ ev'.op \in {"AFetchUsersMapOk", "AFetchUsersMapFail"} =>
          /\ ev'.calls = <<GetAttendance>>
          /\ Cardinality(Startups(a_net', "fetchUsersMap"))
               = Cardinality(Startups(a_net, "fetchUsersMap")) - 1
          /\ Cardinality(Startups(a_net', "fetchAttendanceLogs"))
               = Cardinality(Startups(a_net, "fetchAttendanceLogs")) + 1
     /\ Cardinality(Startups(a_net', "fetchAttendanceLogs"))
          > Cardinality(Startups(a_net, "fetchAttendanceLogs"))
        => ev'.op \in {"AFetchUsersMapOk", "AFetchUsersMapFail"}]_vars

\* The member fetch has just failed and its startup sequence awaits the
\* attendance fetch.
StartupFetchesInOrderSeen ==
  /\ ev.op = "AFetchUsersMapFail"
  /\ \E i \in 1..Len(a_net) : a_net[i] = LoadLogsTask(FALSE)

\* C5: with submission possible only while loading is false, at most one
\* submission of a form is in flight at any time (here the member form).
OneSubmissionInFlight ==
  Cardinality(InFlight(u_net, "handleFormSubmit")) <= 1

\* C6: the submit control is disabled (loading) in exactly the states in
\* which a submission of its form is outstanding (here the member form,
\* while it is shown).
LoadingIffSubmitting ==
  (u_mounted /\ u_showForm) => (u_loading <=> InFlight(u_net, "handleFormSubmit") # {})

\* C7: loadingCheckIn is true exactly while a check-in request is
\* outstanding, and at most one check-in request is in flight, whatever
\* attendance or member fetches are under way.
CheckInFlagExact ==
  /\ a_loadingCheckIn <=> InFlight(a_net, "handleCheckIn") # {}
  /\ Cardinality(InFlight(a_net, "handleCheckIn")) <= 1

\* A check-in is outstanding while an attendance fetch is, the flag up.
CheckInFlagExactSeen ==
  /\ a_loadingCheckIn
  /\ InFlight(a_net, "handleCheckIn") # {}
  /\ \E i \in 1..Len(a_net) : AwaitsLogs(a_net[i])

\* C8: a confirmed plan deletion that succeeds issues GET /plans and an
\* aggregation (which opens with GET /users); a declined confirmation issues
\* no call and changes nothing; a deletion that fails issues no refresh,
\* sets the delete error, and leaves the displayed plans and assignments.
PlanDeleteRefreshesBoth ==
  [][/\ ev'.op = "PDeletePlanOk" =>
          /\ ev'.calls = <<GetPlans, GetUsers>>
          /\ Cardinality(InFlight(p_net', "fetchPlans"))
               = Cardinality(InFlight(p_net, "fetchPlans")) + 1
          /\ Cardinality(InFlight(p_net', "fetchAllPlanAssignments"))
               = Cardinality(InFlight(p_net, "fetchAllPlanAssignments")) + 1
     /\ ev'.op = "PDeleteDeclined" =>
          /\ ev'.calls = <<>>
          /\ p_net' = p_net
     /\ ev'.op = "PDeletePlanFail" =>
          /\ ev'.calls = <<>>
          /\ Len(p_net') = Len(p_net) - 1
          /\ p_error' = Some(PlanDeleteError)
          /\ p_plans' = p_plans
          /\ p_planAssignments' = p_planAssignments]_vars

\* A deletion has just succeeded, plans and assignments on display, and its
\* two refreshes are under way.
PlanDeleteRefreshesBothSeen ==
  /\ ev.op = "PDeletePlanOk"
  /\ p_plans # <<>>
  /\ p_planAssignments # <<>>
  /\ InFlight(p_net, "fetchPlans") # {}
  /\ InFlight(p_net, "fetchAllPlanAssignments") # {}

\* C9: when a create or update of a member succeeds, the form is closed, the
\* editing target cleared, every field at its default (status Inactive,
\* joining date today, the others empty), and exactly one GET /users issued
\* in handling the success.
MemberSaveSuccessResets ==
  ev.op = "UFormSubmitOk" =>
    /\ ~u_showForm
    /\ u_editingUser = Null
    /\ u_formData = [name |-> "", age |-> <<>>, gender |-> "", contactNumber |-> "",
                     membershipStatus |-> "Inactive", joiningDate |-> FormatDate(today)]
    /\ ev.calls = <<GetUsers>>
    /\ Cardinality(InFlight(u_net, "fetchUsers")) >= 1

\* An update has just succeeded, on a day after the one the view was opened.
MemberSaveSuccessResetsSeen ==
  /\ ev.op = "UFormSubmitOk"
  /\ ev.task[1].call.method = "PUT"
  /\ today > 1

\* C10: when a create or update of a member fails, the handler leaves the
\* form's visibility, every field value, the editing target and the
\* displayed member list as they are, issues no call, and sets the
\* save error.
MemberSaveFailureKeeps ==
  [][ev'.op = "UFormSubmitFail" =>
       /\ u_showForm' = u_showForm
       /\ u_formData' = u_formData
       /\ u_editingUser' = u_editingUser
       /\ u_users' = u_users
       /\ ev'.calls = <<>>
       /\ Len(u_net') = Len(u_net) - 1
       /\ u_error' = Some(UserSaveError)]_vars

\* An update has just failed: the form is open on the edited member with
\* the values submitted, the list on display.
MemberSaveFailureKeepsSeen ==
  /\ ev.op = "UFormSubmitFail"
  /\ u_showForm
  /\ u_editingUser # Null
  /\ UserPayload(u_formData) = ev.task[1].body
  /\ u_users # <<>>

\* The DELETE /users/{id} calls among `calls`.
UserDeletes(calls) ==
  {k \in 1..Len(calls) : calls[k].method = "DELETE" /\ Head(calls[k].url) = "users"}

\* C11: in the Members view DELETE /users/{id} is issued only by the step in
\* which the user confirmed the deletion; a declined confirmation issues no
\* call and changes no state; a delete that succeeds issues one GET /users;
\* a delete that fails sets the delete error, issues no call and leaves the
\* displayed member list.
MemberDeleteOutcomes ==
  [][/\ (\/ UserDeletes(ev'.calls) # {}
         \/ Cardinality(InFlight(u_net', "handleDeleteClick"))
               > Cardinality(InFlight(u_net, "handleDeleteClick")))
        => ev'.op = "UHandleDeleteClick"
     /\ ev'.op = "UDeleteDeclined" =>
          /\ ev'.calls = <<>>
          /\ u_vars' = u_vars
     /\ ev'.op = "UDeleteOk" =>
          /\ ev'.calls = <<GetUsers>>
          /\ Cardinality(InFlight(u_net', "fetchUsers"))
               = Cardinality(InFlight(u_net, "fetchUsers")) + 1
     /\ ev'.op = "UDeleteFail" =>
          /\ ev'.calls = <<>>
          /\ Len(u_net') = Len(u_net) - 1
          /\ u_error' = Some(UserDeleteError)
          /\ u_users' = u_users]_vars

\* A member's deletion has just succeeded, the list still on display, and
\* its refetch is under way.
MemberDeleteOutcomesSeen ==
  /\ ev.op = "UDeleteOk"
  /\ u_users # <<>>
  /\ InFlight(u_net, "fetchUsers") # {}

\* C12: when POST /plans/assign succeeds the assignment form is back at its
\* defaults (no member, no plan, start date today) and an aggregation and a
\* refresh of the member dropdown are issued, each opening with GET /users;
\* when it fails no call is issued, the form's values are kept and the
\* assign error is set.
AssignOutcomes ==
  [][/\ ev'.op = "PAssignFormSubmitOk" =>
          /\ p_assignFormData' =
               [userId |-> <<>>, planId |-> <<>>, startDate |-> FormatDate(today')]
          /\ ev'.calls = <<GetUsers, GetUsers>>
          /\ Cardinality(InFlight(p_net', "fetchAllPlanAssignments"))
               = Cardinality(InFlight(p_net, "fetchAllPlanAssignments")) + 1
          /\ Cardinality(InFlight(p_net', "fetchUsersForAssignment"))
               = Cardinality(InFlight(p_net, "fetchUsersForAssignment")) + 1
     /\ ev'.op = "PAssignFormSubmitFail" =>
          /\ ev'.calls = <<>>
          /\ Len(p_net') = Len(p_net) - 1
          /\ p_assignFormData' = p_assignFormData
          /\ p_showAssignForm' = p_showAssignForm
          /\ p_error' = Some(AssignError)]_vars

\* An assignment sent with a start date of the day before has just
\* succeeded.
AssignOutcomesSeen ==
  /\ ev.op = "PAssignFormSubmitOk"
  /\ ev.task[1].body.userId = AnnId
  /\ ev.task[1].body.startDate # FormatDate(today)

\* C13: after a successful check-in the name in the success message is the
\* entry the view's id-to-name table holds for the member id of the
\* response, or, the table holding none, the first 8 characters of that id
\* and an ellipsis; never an empty name.
CheckInNameFromTable ==
  ev.op = "ACheckInOk" =>
    LET id == ev.task[1].response.userId
        shown == a_checkInMessage[1].userName
    IN  /\ shown = IF id \in DOMAIN a_usersMap THEN <<a_usersMap[id]>>
                   ELSE SubSeq(id, 1, IF Len(id) < 8 THEN Len(id) ELSE 8) \o <<"...">>
        /\ shown # <<>>
        /\ shown # <<"">>

\* C14: a check-in that succeeds clears the id field and issues one
\* GET /attendance/all; one that fails leaves the id field and the displayed
\* attendance list, issues no call, and shows the message of the failure's
\* payload as it came when the failure carries one (a response, with a body,
\* with a message that is not empty), the fixed text otherwise.
CheckInOutcomes ==
  [][/\ ev'.op = "ACheckInOk" =>
          /\ a_userIdInput' = <<>>
          /\ ev'.calls = <<GetAttendance>>
          /\ Cardinality(InFlight(a_net', "fetchAttendanceLogs"))
               = Cardinality(InFlight(a_net, "fetchAttendanceLogs")) + 1
     /\ ev'.op = "ACheckInFail" =>
          LET err == ev'.task[1].err
              carried == IF err.response = Null THEN Null
                         ELSE IF err.response[1].data = Null THEN Null
                         ELSE IF err.response[1].data[1].message = "" THEN Null
                         ELSE Some(err.response[1].data[1].message)
          IN  /\ a_userIdInput' = a_userIdInput
              /\ a_attendanceRecords' = a_attendanceRecords
              /\ ev'.calls = <<>>
              /\ Len(a_net') = Len(a_net) - 1
              /\ a_checkInError' =
                   IF carried # Null THEN carried
                   ELSE Some("Failed to check in. Please ensure User ID is valid.")]_vars

\* A check-in has just failed with a message from the remote, the id still
\* in the field and records on display.
CheckInOutcomesSeen ==
  /\ ev.op = "ACheckInFail"
  /\ a_checkInError = Some("User not found")
  /\ a_userIdInput # <<>>
  /\ a_attendanceRecords # <<>>

\* C15: the displayed member list of the Members view and the displayed
\* plan list of the Plans view change only in the step that stores the body
\* of a GET /users, respectively GET /plans, response, and then to that
\* body: no create, update or delete handler changes them.
ListsOnlyFromResponses ==
  [][/\ u_users' # u_users =>
          /\ ev'.op = "UFetchUsersOk"
          /\ u_users' = ev'.task[1].response
     /\ ev'.op = "UFetchUsersOk" => u_users' = ev'.task[1].response
     /\ p_plans' # p_plans =>
          /\ ev'.op = "PFetchPlansOk"
          /\ p_plans' = ev'.task[1].response
     /\ ev'.op = "PFetchPlansOk" => p_plans' = ev'.task[1].response]_vars

\* A member's deletion has succeeded and, its refetch not yet answered, the
\* list on display is still the two members of the last response.
ListsOnlyFromResponsesSeen ==
  /\ ev.op = "UDeleteOk"
  /\ Len(u_users) = 2
  /\ Cardinality(InFlight(u_net, "fetchUsers")) = 1
  /\ ~u_loading

\* C16: every failed remote call leaves, in the step that handles the
\* failure, an error message that is not null in the state of its view.
FailuresSetAnError ==
  /\ ev.op \in {"UFetchUsersFail", "UFormSubmitFail", "UDeleteFail"} => u_error # Null
  /\ ev.op \in {"AFetchUsersMapFail", "AFetchLogsFail"} => a_errorLogs # Null
  /\ ev.op = "ACheckInFail" => a_checkInError # Null
  /\ ev.op \in {"PFetchPlansFail", "PFetchUsersForAssignmentFail", "PAggFail",
                "PPlanFormSubmitFail", "PDeletePlanFail", "PAssignFormSubmitFail"}
       => p_error # Null

\* The steps the user takes: clicks, typing, submissions.
UserSteps ==
  {"UToggleForm", "UHandleInputChange", "UHandleEditClick", "UCancelEdit",
   "UHandleFormSubmit", "UDeleteDeclined", "UHandleDeleteClick",
   "ASetUserIdInput", "ASubmitBlank", "AHandleCheckIn",
   "PTogglePlanForm", "PToggleAssignForm", "PHandlePlanInputChange",
   "PHandleEditPlanClick", "PCancelEditPlan", "PHandlePlanFormSubmit",
   "PDeleteDeclined", "PHandleDeletePlanClick", "PHandleAssignInputChange",
   "PHandleAssignFormSubmit"}

\* C17: every remote call being answered in the end (the fairness of the
\* specification) and the user taking no step from some point on, the
\* loading flag of a mounted Members or Plans view, and loadingCheckIn of a
\* mounted Attendance view, is false from some point on for good.
SubmittingEnds ==
  <>[][ev'.op \notin UserSteps]_vars =>
    /\ <>u_mounted => <>[](~u_loading)
    /\ <>p_mounted => <>[](~p_loading)
    /\ <>a_mounted => <>[](~a_loadingCheckIn)

\* A save has just failed with nothing else in flight, and the submit
\* control is enabled again.
SubmittingEndsSeen ==
  /\ ev.op = "UFormSubmitFail"
  /\ u_net = <<>>
  /\ ~u_loading

\* C18: in the Plans view the plan form and the assignment form are never
\* both visible.
FormsNeverBothVisible == ~(p_showPlanForm /\ p_showAssignForm)

\* C19: of several refreshes of a list in flight at once, a response to an
\* older request never overwrites what a newer one has stored (here the
\* member list: no fetchUsers stores its response once one started after it
\* has stored its own).
NewestResponseWins ==
  ev.op = "UFetchUsersOk" => ~ev.task[1].superseded

\* C20: in the Members view and the Plans view an error message on display
\* is taken away only by the user starting a new submission, never by
\* another operation completing.
ErrorStaysUntilSubmission ==
  [][/\ (u_error # Null /\ u_error' = Null) => ev'.op = "UHandleFormSubmit"
     /\ (p_error # Null /\ p_error' = Null)
          => ev'.op \in {"PHandlePlanFormSubmit", "PHandleAssignFormSubmit"}]_vars

====
